---- MODULE Spec2Model ----
(***************************************************************************)
(* A model of tinytuya/scanner.py: devices(), the dual-port UDP broadcast  *)
(* scanner.  One behaviour is one call of devices(): identity file load,   *)
(* socket binding, optional forced sweep, then the listening loop, one     *)
(* action per loop iteration outcome.  Printing (verbose, color) is left   *)
(* out: it changes no state of the scan.                                   *)
(***************************************************************************)
EXTENDS Integers, Sequences, FiniteSets, TLC

\* ------------------------------------------------------------------ bounds
\* The largest retry budget a caller passes.
MaxRetryArg == 1

\* tinytuya.MAXCOUNT: the default retry budget.  It is defined in the package
\* core, not in scanner.py, which only adds it to the number of identities;
\* a small value stands for it here.
MAXCOUNT == 1

\* The hosts of the network: a known lamp and an unknown plug.
LampIP == "10.0.0.5"
PlugIP == "10.0.0.6"
IPs == {LampIP, PlugIP}

\* The value get_mac_address() gives for an address it cannot resolve.
NoneMac == "<None>"

\* ------------------------------------------------------------------ inputs
Fields == <<"ip", "gwId", "productKey", "version">>

\* A mapping (Python dict) with the keys S and the values of f.
Dict(S, f) == [k \in S |-> f[k]]
EmptyDict == [k \in {} |-> ""]

\* Decoded broadcast objects: a JSON object with some of the four fields.
LampA == [ip |-> LampIP, gwId |-> "abc", productKey |-> "pk", version |-> "3.1"]
LampB == [ip |-> LampIP, gwId |-> "abc", productKey |-> "pk", version |-> "3.3"]
PlugB == [ip |-> PlugIP, gwId |-> "zzz", productKey |-> "pk", version |-> "3.3"]
FullObjs == {LampA, LampB, PlugB}
FieldSets ==
  {{"ip"}, {"ip", "gwId"}, {"gwId", "productKey", "version"}}
PartialObjs == {Dict(S, LampB) : S \in FieldSets}

\* A datagram payload: json = FALSE is a payload that neither decrypts nor
\* parses as JSON; otherwise obj is the parsed object.
Payloads ==
  {[json |-> FALSE, obj |-> EmptyDict]}
    \cup {[json |-> TRUE, obj |-> o] : o \in FullObjs \cup PartialObjs}

\* Contents of devices.json (a sequence of identity records).
IdentityFiles ==
  { <<[id |-> "abc", name |-> "Lamp", key |-> "k1", mac |-> "m1"]>> }

\* Answers of OutletDevice.status(): a mapping, or an exception ("raise").
StatusMappings ==
  { [dps |-> "on"], [Error |-> "E904"], [Payload |-> ""] }
PollOutcomes ==
  {[raise |-> FALSE, dpsdata |-> m] : m \in StatusMappings}
    \cup {[raise |-> TRUE, dpsdata |-> EmptyDict]}

NoPoll == [raise |-> TRUE, dpsdata |-> EmptyDict]

\* IP -> MAC tables a sweep can produce over the probed hosts.
SweepHosts == {LampIP}
SweepTables ==
  UNION {[S -> {"m9", NoneMac}] : S \in SUBSET SweepHosts}

VARIABLES
  pc,          \* position in devices()
  maxretry,    \* the maxretry parameter/local: {} is None, {n} is n
  poll,        \* the poll parameter
  forcescan,   \* the forcescan parameter/local
  havekeys, tuyadevices,
  clientOpen, clientsOpen,   \* the two UDP sockets are open
  devices, count, counts, ip_list,
  returned,    \* devices() returned the registry to its caller
  \* history of the run
  interrupted, \* a KeyboardInterrupt arrived in a receive call
  iters,       \* receive calls made
  novel,       \* iterations that took the new-device branch
  senders,     \* source IPs that sent a datagram
  observed,    \* IPs the datagrams announced (payload ip, else source IP)
  newCount,    \* per IP, how often it was reported new (saturating at 2)
  polls,       \* status() calls: [ip, gwId, version, key]
  pollLog,     \* per polled IP, what status() answered
  created,     \* per entry, the creating datagram: its source IP, the
               \* device id read from it and its payload note
               \* ("Valid"/"Unknown")
  served,      \* the endpoints that were given a receive call
  pollCount,   \* per IP, the status() calls made for it (saturating at 2)
  lookupCount, \* per IP, the tuyaLookup() calls made for it (saturating at 2)
  sweep        \* how the sweep phase ended: "none", "done" or "failed"

vars == <<pc, maxretry, poll, forcescan, havekeys, tuyadevices, clientOpen,
          clientsOpen, devices, count, counts, ip_list, returned, interrupted,
          iters, novel, senders, observed, newCount, polls, pollLog, created,
          served, pollCount, lookupCount, sweep>>

\* ------------------------------------------------------------ pure helpers
\* d with key k set to v (Python: d[k] = v).
Put(d, k, v) == [x \in DOMAIN d \cup {k} |-> IF x = k THEN v ELSE d[x]]

MaxretryVal == CHOOSE n \in maxretry : TRUE

\* tinytuya.floor(x), of the package core: the counters' minimum is 0.
floor(x) == IF x > 0 THEN x ELSE 0

\* tinytuya.appenddevice(newdevice, devices), of the package core: ret is
\* TRUE when newdevice's ip is already recorded; otherwise the entry is added.
appenddevice(newdevice, devs) ==
  IF newdevice["ip"] \in DOMAIN devs
    THEN [ret |-> TRUE, devices |-> devs]
    ELSE [ret |-> FALSE, devices |-> Put(devs, newdevice["ip"], newdevice)]

\* tuyaLookup(deviceid): the first identity record with that id.
RECURSIVE tuyaLookupFrom(_, _, _)
tuyaLookupFrom(tds, i, deviceid) ==
  IF i > Len(tds) THEN <<"", "", "">>
  ELSE IF tds[i]["id"] = deviceid
    THEN IF "mac" \in DOMAIN tds[i]
           THEN <<tds[i]["name"], tds[i]["key"], tds[i]["mac"]>>
           ELSE <<tds[i]["name"], tds[i]["key"], "">>
    ELSE tuyaLookupFrom(tds, i + 1, deviceid)

tuyaLookup(tds, deviceid) == tuyaLookupFrom(tds, 1, deviceid)

\* A default that ignores the number of identities.
DefaultBudgetLoaded_NoLen(tds) == MAXCOUNT

\* The default budget when the identity file was loaded / not loaded.
DefaultBudgetLoaded(tds) == Len(tds) + MAXCOUNT
DefaultBudget == MAXCOUNT

\* A loop condition that forgets the second counter.
LoopCond_CountOnly(c, cs, m) == c <= m

\* while (count + counts) <= maxretry
LoopCond(c, cs, m) == (c + cs) <= m

\* A selection that never leaves the first endpoint.
Select_AlwaysClient(c, cs) == "client"

\* if count <= counts: receive on client (6666) else on clients (6667)
Select(c, cs) == IF c <= cs THEN "client" ELSE "clients"

\* The payload interpreter: the locals after lines 258-281.  The fields are
\* read in the order ip, gwId, productKey, version; the first missing one
\* raises, and the locals assigned before it keep their values.
Unknown_KeepsFields(ip0, gw, pk) ==
  [ip |-> ip0, gwId |-> gw, productKey |-> pk, version |-> "",
   result |-> [ip |-> ip0, gwId |-> gw, productKey |-> pk], note |-> "Unknown"]

Unknown(ip0, gw, pk) ==
  [ip |-> ip0, gwId |-> gw, productKey |-> pk, version |-> "",
   result |-> [k \in {"ip"} |-> ip0], note |-> "Unknown"]

\* An interpreter that keeps the sender's address as the ip.
Decode_BySender(payload, addr0) ==
  LET o == payload.obj
      has(k) == k \in DOMAIN o
  IN IF ~payload.json \/ ~has("ip") THEN Unknown(addr0, "", "")
     ELSE IF ~has("gwId") THEN Unknown(addr0, "", "")
     ELSE IF ~has("productKey") THEN Unknown(addr0, o["gwId"], "")
     ELSE IF ~has("version") THEN Unknown(addr0, o["gwId"], o["productKey"])
     ELSE [ip |-> addr0, gwId |-> o["gwId"], productKey |-> o["productKey"],
           version |-> o["version"], result |-> Put(o, "ip", addr0),
           note |-> "Valid"]

Decode(payload, addr0) ==
  LET o == payload.obj
      has(k) == k \in DOMAIN o
  IN IF ~payload.json \/ ~has("ip") THEN Unknown(addr0, "", "")
     ELSE IF ~has("gwId") THEN Unknown(o["ip"], "", "")
     ELSE IF ~has("productKey") THEN Unknown(o["ip"], o["gwId"], "")
     ELSE IF ~has("version") THEN Unknown(o["ip"], o["gwId"], o["productKey"])
     ELSE [ip |-> o["ip"], gwId |-> o["gwId"], productKey |-> o["productKey"],
           version |-> o["version"], result |-> o, note |-> "Valid"]

\* A test that takes the new-device branch on every datagram.
NewBranch_Always(ret) == TRUE

\* A test that takes the new-device branch for recorded IPs.
NewBranch_Inverted(ret) == ret = TRUE

\* if tinytuya.appenddevice(result, devices) is False: the new-device branch
NewBranch(ret) == ret = FALSE

\* The counters after the new-device branch's back-off (lines 287-290).
BackOff(version, c, cs) ==
  IF version = "3.1" THEN <<floor(c - 1), cs>> ELSE <<c, floor(cs - 1)>>

\* A recorded IP's broadcast that counts twice.
SeenAgain_ByTwo(version, c, cs) ==
  IF version = "3.1" THEN <<c + 2, cs>> ELSE <<c, cs + 2>>

\* The counters after a broadcast from a recorded IP (lines 392-395).
SeenAgain(version, c, cs) ==
  IF version = "3.1" THEN <<c + 1, cs>> ELSE <<c, cs + 1>>

\* (dname, dkey, mac2) after lines 292-297.
Resolve(hk, tds, gwId) == IF hk THEN tuyaLookup(tds, gwId) ELSE <<"", "", "">>

\* A merge that prefers the sweep table to the identity file.
MacMerge_SweepFirst(mac2, ip, table) ==
  IF ip \in DOMAIN table THEN table[ip] ELSE mac2

\* mac after lines 298-301.
MacMerge(mac2, ip, table) ==
  IF mac2 = "" /\ ip \in DOMAIN table THEN table[ip] ELSE mac2

\* Line 302 concatenates mac to a string: a None mac raises TypeError,
\* outside every try block.
SuffixRaises(mac) == mac = NoneMac

\* An eligibility test without the key check of line 353.
PollEligible_NoKeyCheck(pollOn, version, dkey) == pollOn

\* Whether lines 326-379 call status() for the device.
PollEligible(pollOn, version, dkey) ==
  pollOn /\ (version = "3.1" \/ dkey # "")

\* A poll that records the response's Error text.
PollEntry_ErrorText(entry, outcome) ==
  IF outcome.raise THEN Put(entry, "err", "Unable to poll")
  ELSE IF "dps" \in DOMAIN outcome.dpsdata
    THEN Put(entry, "dps", outcome.dpsdata)
    ELSE IF "Error" \in DOMAIN outcome.dpsdata
      THEN Put(entry, "err", outcome.dpsdata["Error"])
      ELSE Put(entry, "err", "Unable to poll")

\* A poll that leaves no marker when it fails.
PollEntry_Silent(entry, outcome) ==
  IF ~outcome.raise /\ "dps" \in DOMAIN outcome.dpsdata
    THEN Put(entry, "dps", outcome.dpsdata)
    ELSE entry

\* The entry after a status() call (lines 333-348, 356-371, 382-385).
PollEntry(entry, outcome) ==
  IF outcome.raise THEN Put(entry, "err", "Unable to poll")
  ELSE IF "dps" \notin DOMAIN outcome.dpsdata
    THEN Put(entry, "err", "Unable to poll")
    ELSE Put(entry, "dps", outcome.dpsdata)

\* The entry after lines 386-390.
Enrich(entry, dname, dkey, mac) ==
  LET e1 == IF dname # "" THEN Put(Put(entry, "name", dname), "key", dkey)
                          ELSE entry
  IN IF mac # "" THEN Put(e1, "mac", mac) ELSE e1

\* ------------------------------------------------------------------ state
MaxretryArgs == {{}} \cup {{n} : n \in (-1)..MaxRetryArg}

Init ==
  /\ pc = "load"
  /\ maxretry \in MaxretryArgs
  /\ poll \in BOOLEAN
  /\ forcescan \in BOOLEAN
  /\ havekeys = FALSE
  /\ tuyadevices = <<>>
  /\ clientOpen = FALSE
  /\ clientsOpen = FALSE
  /\ devices = EmptyDict
  /\ count = 0
  /\ counts = 0
  /\ ip_list = EmptyDict
  /\ returned = FALSE
  /\ interrupted = FALSE
  /\ iters = 0
  /\ novel = 0
  /\ senders = {}
  /\ observed = {}
  /\ newCount = [i \in IPs |-> 0]
  /\ polls = {}
  /\ pollLog = EmptyDict
  /\ created = EmptyDict
  /\ served = {}
  /\ pollCount = [i \in IPs |-> 0]
  /\ lookupCount = [i \in IPs |-> 0]
  /\ sweep = "none"

loopHistory == <<interrupted, iters, novel, senders, observed, newCount, polls,
                 pollLog, created, served, pollCount, lookupCount>>
history == <<loopHistory, sweep>>
scanState == <<devices, count, counts>>
sockets == <<clientOpen, clientsOpen>>

\* Lines 116-132 with devices.json readable.
LoadIdentity ==
  /\ pc = "load"
  /\ \E file \in IdentityFiles :
       /\ tuyadevices' = file
       /\ havekeys' = TRUE
       /\ maxretry' = IF maxretry = {} THEN {DefaultBudgetLoaded(file)} ELSE maxretry
  /\ pc' = "bind"
  /\ UNCHANGED <<poll, forcescan, sockets, scanState, ip_list, returned, history>>

\* Lines 116-132 with devices.json missing or unreadable.
LoadNothing ==
  /\ pc = "load"
  /\ maxretry' = IF maxretry = {} THEN {DefaultBudget} ELSE maxretry
  /\ pc' = "bind"
  /\ UNCHANGED <<poll, forcescan, havekeys, tuyadevices, sockets, scanState,
                 ip_list, returned, history>>

\* Lines 134-143, both binds succeed.
Bind ==
  /\ pc = "bind"
  /\ clientOpen' = TRUE
  /\ clientsOpen' = TRUE
  /\ pc' = "sweep"
  /\ UNCHANGED <<maxretry, poll, forcescan, havekeys, tuyadevices, scanState,
                 ip_list, returned, history>>

\* Lines 134-143, a bind raises: the exception leaves devices().
BindFail ==
  /\ pc = "bind"
  /\ clientOpen' = TRUE
  /\ \E second \in BOOLEAN : clientsOpen' = second
  /\ pc' = "bindfail"
  /\ UNCHANGED <<maxretry, poll, forcescan, havekeys, tuyadevices, scanState,
                 ip_list, returned, history>>

\* Lines 157-175: no sweep (not requested, or getmac is not installed).
NoSweep ==
  /\ pc = "sweep"
  /\ \E scanlibs \in BOOLEAN :
       /\ ~(forcescan /\ scanlibs)
       /\ forcescan' = FALSE
  /\ pc' = "loop"
  /\ UNCHANGED <<maxretry, poll, havekeys, tuyadevices, sockets, scanState,
                 ip_list, returned, history>>

\* An except block that leaves forcescan as it was.
AfterRaise_Keep(fs) == fs

\* forcescan after the except block of lines 219-223.
AfterRaise(fs) == FALSE

\* Lines 175-217: the sweep probes every host and completes.
Sweep ==
  /\ pc = "sweep"
  /\ forcescan
  /\ \E table \in SweepTables : ip_list' = table
  /\ sweep' = "done"
  /\ pc' = "loop"
  /\ UNCHANGED <<maxretry, poll, forcescan, havekeys, tuyadevices, sockets,
                 scanState, returned, loopHistory>>

\* Lines 191-223: the sweep raises part-way; the hosts recorded so far stay.
SweepFail ==
  /\ pc = "sweep"
  /\ forcescan
  /\ \E table \in SweepTables : ip_list' = table
  /\ forcescan' = AfterRaise(forcescan)
  /\ sweep' = "failed"
  /\ pc' = "loop"
  /\ UNCHANGED <<maxretry, poll, havekeys, tuyadevices, sockets, scanState,
                 returned, loopHistory>>

config == <<maxretry, poll, forcescan, havekeys, tuyadevices, ip_list>>

\* Lines 226, 409-412: the budget is spent; close the sockets and return.
LoopExit ==
  /\ pc = "loop"
  /\ ~LoopCond(count, counts, MaxretryVal)
  /\ clientsOpen' = FALSE
  /\ clientOpen' = FALSE
  /\ returned' = TRUE
  /\ pc' = "done"
  /\ UNCHANGED <<config, scanState, history>>

\* Lines 234-257: the receive call times out or fails with an I/O error.
RecvTimeout ==
  /\ pc = "loop"
  /\ LoopCond(count, counts, MaxretryVal)
  /\ IF Select(count, counts) = "client"
       THEN count' = count + 1 /\ counts' = counts
       ELSE counts' = counts + 1 /\ count' = count
  /\ iters' = iters + 1
  /\ served' = served \cup {Select(count, counts)}
  /\ UNCHANGED <<pc, config, sockets, devices, returned, interrupted, novel,
                 senders, observed, newCount, polls, pollLog, created,
                 pollCount, lookupCount, sweep>>

\* Lines 237-241, 249-253: KeyboardInterrupt in the receive call; exit()
\* raises SystemExit out of devices().
RecvInterrupt ==
  /\ pc = "loop"
  /\ LoopCond(count, counts, MaxretryVal)
  /\ iters' = iters + 1
  /\ interrupted' = TRUE
  /\ served' = served \cup {Select(count, counts)}
  /\ pc' = "exited"
  /\ UNCHANGED <<config, sockets, scanState, returned, novel, senders,
                 observed, newCount, polls, pollLog, created, pollCount,
                 lookupCount, sweep>>

\* What a datagram announces, read off the datagram itself.
Announced(src, payload) ==
  IF payload.json /\ "ip" \in DOMAIN payload.obj THEN payload.obj["ip"] ELSE src
Decodable(payload) ==
  payload.json /\ \A i \in 1..Len(Fields) : Fields[i] \in DOMAIN payload.obj

Inc2(n) == IF n < 2 THEN n + 1 ELSE 2

\* Lines 234-395: a datagram arrives from src on the selected endpoint and
\* is processed to the end of the iteration; outcome is what status()
\* answers if the device is polled.
RecvDatagram ==
  /\ pc = "loop"
  /\ LoopCond(count, counts, MaxretryVal)
  /\ \E src \in IPs, payload \in Payloads, outcome \in PollOutcomes :
       LET d == Decode(payload, src)
           app == appenddevice(d.result, devices)
           isNew == NewBranch(app.ret)
           look == Resolve(havekeys, tuyadevices, d.gwId)
           dname == look[1]
           dkey == look[2]
           mac == MacMerge(look[3], d.ip, ip_list)
           raises == isNew /\ SuffixRaises(mac)
           polled == isNew /\ ~raises /\ PollEligible(poll, d.version, dkey)
           e0 == app.devices[d.ip]
           e1 == IF polled THEN PollEntry(e0, outcome) ELSE e0
           e2 == Enrich(e1, dname, dkey, mac)
           cnt == IF isNew THEN BackOff(d.version, count, counts)
                           ELSE SeenAgain(d.version, count, counts)
       IN /\ count' = cnt[1]
          /\ counts' = cnt[2]
          /\ devices' = IF isNew /\ ~raises THEN Put(app.devices, d.ip, e2)
                                            ELSE app.devices
          /\ polled \/ outcome = NoPoll
          /\ pc' = IF raises THEN "aborted" ELSE "loop"
          /\ iters' = iters + 1
          /\ novel' = IF isNew THEN novel + 1 ELSE novel
          /\ senders' = senders \cup {src}
          /\ observed' = observed \cup {Announced(src, payload)}
          /\ newCount' = IF isNew
                           THEN [newCount EXCEPT ![d.ip] = Inc2(@)]
                           ELSE newCount
          /\ created' = IF isNew
                          THEN Put(created, d.ip,
                                   [src |-> src,
                                    ann |-> Announced(src, payload),
                                    id |-> d.gwId,
                                    note |-> IF Decodable(payload) THEN "Valid"
                                                                   ELSE "Unknown"])
                          ELSE created
          /\ polls' = IF polled
                        THEN polls \cup {[ip |-> d.ip, gwId |-> d.gwId,
                                          version |-> d.version, key |-> dkey]}
                        ELSE polls
          /\ pollLog' = IF polled THEN Put(pollLog, d.ip, outcome) ELSE pollLog
          /\ pollCount' = IF polled
                            THEN [pollCount EXCEPT ![d.ip] = Inc2(@)]
                            ELSE pollCount
          /\ lookupCount' = IF isNew /\ havekeys
                              THEN [lookupCount EXCEPT ![d.ip] = Inc2(@)]
                              ELSE lookupCount
          /\ served' = served \cup {Select(count, counts)}
  /\ UNCHANGED <<config, sockets, returned, interrupted, sweep>>

Next ==
  \/ LoadIdentity
  \/ LoadNothing
  \/ Bind
  \/ BindFail
  \/ NoSweep
  \/ Sweep
  \/ SweepFail
  \/ LoopExit
  \/ RecvTimeout
  \/ RecvInterrupt
  \/ RecvDatagram

Spec == Init /\ [][Next]_vars

\* ------------------------------------------------------------------ claims
InScan == pc \in {"loop", "done", "exited", "aborted"}
Left == pc \in {"done", "exited", "aborted"}

\* C1 (as stated): the registry has exactly one entry per source IP that
\* sent a datagram.
C1_OnePerSourceIP == DOMAIN devices = senders

\* C1 (amended): the registry has exactly one entry per announced IP, the
\* payload's ip when the payload parses and has one, the sender's address
\* otherwise; each entry is stored under its own ip.
C1_OnePerAnnouncedIP ==
  /\ DOMAIN devices = observed
  /\ \A ip \in DOMAIN devices : devices[ip]["ip"] = ip

C1_Witness ==
  /\ DOMAIN devices = IPs
  /\ senders = {PlugIP}
  /\ iters >= 3

\* C2: the registry reports an IP as new exactly once, at its first
\* observation, and never again.
C2_NewExactlyOnce ==
  \A ip \in IPs : newCount[ip] = IF ip \in observed THEN 1 ELSE 0

C2_Witness ==
  /\ observed = {LampIP}
  /\ senders = IPs
  /\ newCount[LampIP] = 1
  /\ count + counts >= 1

\* C3 (as stated): the receive calls number at most maxRetries plus the
\* novel iterations (checked for maxRetries >= 0).
C3_AtMostBudgetPlusNovel ==
  (InScan /\ MaxretryVal >= 0) => iters <= MaxretryVal + novel

\* C3 (amended): the receive calls number at most maxRetries + 1 plus twice
\* the novel iterations (for maxRetries >= -1).
C3_AtMostBudgetPlusOnePlusTwiceNovel ==
  (InScan /\ MaxretryVal >= -1) => iters <= MaxretryVal + 1 + 2 * novel

C3_Witness ==
  /\ pc = "done"
  /\ novel >= 1
  /\ iters = MaxretryVal + 1 + 2 * novel

\* C4: with polling on, status() is never called for a device that is not
\* dialect A ("3.1") and whose resolved key is empty.
C4_NoKeyNoPoll ==
  /\ \A p \in polls : p.version # "3.1" => p.key # ""
  /\ \A ip \in DOMAIN devices :
       (\A p \in polls : p.ip # ip) =>
         /\ "dps" \notin DOMAIN devices[ip]
         /\ "err" \notin DOMAIN devices[ip]

C4_Witness ==
  /\ poll
  /\ PlugIP \in DOMAIN devices
  /\ "version" \in DOMAIN devices[PlugIP]
  /\ \A p \in polls : p.ip # PlugIP
  /\ \E p \in polls : p.version # "3.1"

\* C5 (as stated): an undecodable datagram's entry is keyed by the sender's
\* IP and carries no gwId and no productKey.
C5_UnknownKeyedBySender ==
  \A ip \in DOMAIN created :
    created[ip].note = "Unknown" =>
      /\ created[ip].src = ip
      /\ ip \in DOMAIN devices
      /\ "gwId" \notin DOMAIN devices[ip]
      /\ "productKey" \notin DOMAIN devices[ip]

\* C5 (amended): an undecodable datagram announcing an IP without an entry
\* produces an entry keyed by the payload's ip when the payload parsed and
\* has one, by the sender's IP otherwise; it carries no gwId and no
\* productKey.
C5_UnknownKeyedByAnnounced ==
  \A ip \in DOMAIN created :
    created[ip].note = "Unknown" =>
      /\ created[ip].ann = ip
      /\ ip \in DOMAIN devices
      /\ devices[ip]["ip"] = ip
      /\ "gwId" \notin DOMAIN devices[ip]
      /\ "productKey" \notin DOMAIN devices[ip]

C5_Witness ==
  /\ pc = "loop"
  /\ LampIP \in DOMAIN created
  /\ created[LampIP].note = "Unknown"
  /\ created[LampIP].src = PlugIP
  /\ "name" \in DOMAIN devices[LampIP]

\* C6: after a user interrupt in a receive call, devices() returns the
\* registry to its caller.
C6_InterruptReturnsRegistry ==
  interrupted => (pc = "done" /\ returned)

\* C7: whenever control has left devices() after both sockets were bound,
\* both sockets are closed.
C7_SocketsClosedOnExit ==
  Left => (~clientOpen /\ ~clientsOpen)

\* C8: once the sockets are bound, no datagram or device aborts the scan.
C8_NeverAborts == pc # "aborted"

\* C9 (as stated): a dps response is attached as the status, an Error
\* response gives a pollError taken from the response, an exception gives
\* "Unable to poll".
C9_ErrorFromResponse ==
  \A ip \in DOMAIN pollLog :
    LET o == pollLog[ip]
        e == devices[ip]
    IN IF o.raise THEN "err" \in DOMAIN e /\ e["err"] = "Unable to poll"
       ELSE IF "dps" \in DOMAIN o.dpsdata
         THEN "dps" \in DOMAIN e /\ e["dps"] = o.dpsdata
         ELSE ("Error" \in DOMAIN o.dpsdata) =>
                ("err" \in DOMAIN e /\ e["err"] = o.dpsdata["Error"])

\* C9 (amended): a dps response is attached as the status; every other
\* answer (an Error response, any response without dps, an exception) gives
\* the generic pollError "Unable to poll".
C9_PollOutcomes ==
  \A ip \in DOMAIN pollLog :
    LET o == pollLog[ip]
        e == devices[ip]
    IN IF ~o.raise /\ "dps" \in DOMAIN o.dpsdata
         THEN /\ "dps" \in DOMAIN e
              /\ e["dps"] = o.dpsdata
              /\ "err" \notin DOMAIN e
         ELSE /\ "err" \in DOMAIN e
              /\ e["err"] = "Unable to poll"
              /\ "dps" \notin DOMAIN e

C9_Witness ==
  \E ip \in DOMAIN pollLog :
    /\ ~pollLog[ip].raise
    /\ "Error" \in DOMAIN pollLog[ip].dpsdata
    /\ devices[ip]["err"] = "Unable to poll"

\* C10: with polling on, every recorded dialect-A device was polled, and a
\* device whose id is a known identity carries that identity's name and key.
C10_DialectAPolledAndNamed ==
  \A ip \in DOMAIN devices :
    LET e == devices[ip]
    IN ("version" \in DOMAIN e /\ e["version"] = "3.1") =>
         /\ poll => \E p \in polls : p.ip = ip
         /\ (havekeys /\ tuyaLookup(tuyadevices, e["gwId"])[1] # "") =>
              /\ "name" \in DOMAIN e
              /\ e["name"] = tuyaLookup(tuyadevices, e["gwId"])[1]
              /\ e["key"] = tuyaLookup(tuyadevices, e["gwId"])[2]

\* The mac the identity file gives for a device id ("" if none).
IdentityMac(id) ==
  IF havekeys /\ \E i \in 1..Len(tuyadevices) :
                   tuyadevices[i]["id"] = id /\ "mac" \in DOMAIN tuyadevices[i]
    THEN LET i == CHOOSE j \in 1..Len(tuyadevices) :
                    /\ tuyadevices[j]["id"] = id
                    /\ \A k \in 1..(j - 1) : tuyadevices[k]["id"] # id
         IN IF "mac" \in DOMAIN tuyadevices[i] THEN tuyadevices[i]["mac"] ELSE ""
    ELSE ""

\* The mac the sweep table gives for an IP ("" if none or unresolved).
SweepMac(ip) ==
  IF ip \in DOMAIN ip_list /\ ip_list[ip] # NoneMac THEN ip_list[ip] ELSE ""

\* C11: an entry's mac is the identity file's mac for the device id if it is
\* non-empty, otherwise the sweep table's mac for the entry's IP if it has
\* one, otherwise the entry has no mac.
C11_MacPrecedence ==
  \A ip \in DOMAIN created :
    LET idmac == IdentityMac(created[ip].id)
        want == IF idmac # "" THEN idmac ELSE SweepMac(ip)
        e == devices[ip]
    IN IF want = "" THEN "mac" \notin DOMAIN e
       ELSE "mac" \in DOMAIN e /\ e["mac"] = want

C11_Witness ==
  /\ LampIP \in DOMAIN devices
  /\ "mac" \in DOMAIN devices[LampIP]
  /\ devices[LampIP]["mac"] = "m1"
  /\ LampIP \in DOMAIN ip_list
  /\ ip_list[LampIP] = "m9"

\* C12: a datagram for a recorded IP leaves the registry unchanged, and no
\* entry is ever changed, replaced or removed once its iteration is over.
C12_DuplicatesChangeNothing ==
  [][ /\ novel' = novel => devices' = devices
      /\ \A ip \in DOMAIN devices :
           ip \in DOMAIN devices' /\ devices'[ip] = devices[ip] ]_vars

C12_Witness ==
  /\ iters = 2
  /\ novel = 1
  /\ count = 0
  /\ counts = 1
  /\ LampIP \in DOMAIN devices
  /\ "version" \in DOMAIN devices[LampIP]
  /\ devices[LampIP]["version"] = "3.1"

\* One less, but not below zero.
Lowered(n) == IF n > 0 THEN n - 1 ELSE 0

\* The version the iteration's new entry was recorded with ("" if none).
NewVersion ==
  LET ip == CHOOSE i \in DOMAIN devices' : i \notin DOMAIN devices
  IN IF "version" \in DOMAIN devices'[ip] THEN devices'[ip]["version"] ELSE ""

\* C13: a timeout adds 1 to the receiving endpoint's counter
\* only, and a new device lowers the counter of the endpoint it was received
\* on, leaving the other counter unchanged.
C13_BackOffByEndpoint ==
  [][ /\ RecvTimeout =>
           IF Select(count, counts) = "client"
             THEN count' = count + 1 /\ counts' = counts
             ELSE counts' = counts + 1 /\ count' = count
      /\ novel' = novel + 1 =>
           IF Select(count, counts) = "client"
             THEN count' = Lowered(count) /\ counts' = counts
             ELSE counts' = Lowered(counts) /\ count' = count ]_vars

\* C14: for maxRetries >= 1 the budget is never spent with an endpoint that
\* was never given a receive call.
C14_NoEndpointStarves ==
  (pc = "done" /\ MaxretryVal >= 1) => served = {"client", "clients"}

Failure(o) == o.raise \/ "dps" \notin DOMAIN o.dpsdata

\* C16: a failed poll marks only the polled device's entry, changes no other
\* entry, and leaves the counters where the new-device back-off alone puts
\* them.
C16_PollFailureIsLocal ==
  [][ \A ip \in DOMAIN pollLog' :
        (ip \notin DOMAIN pollLog /\ Failure(pollLog'[ip])) =>
          /\ "err" \in DOMAIN devices'[ip]
          /\ devices'[ip]["err"] = "Unable to poll"
          /\ DOMAIN devices' = DOMAIN devices \cup {ip}
          /\ \A j \in DOMAIN devices : devices'[j] = devices[j]
          /\ IF NewVersion = "3.1"
               THEN count' = Lowered(count) /\ counts' = counts
               ELSE counts' = Lowered(counts) /\ count' = count ]_vars

C16_Witness ==
  /\ novel = 2
  /\ PlugIP \in DOMAIN devices
  /\ "err" \notin DOMAIN devices[PlugIP]
  /\ LampIP \in DOMAIN pollLog
  /\ Failure(pollLog[LampIP])
  /\ pc = "done"

\* C17: status() and tuyaLookup() are called at most once per entry, and
\* only in the iteration that creates the entry.
C17_OncePerEntry ==
  /\ [](\A ip \in IPs :
          /\ pollCount[ip] <= 1
          /\ lookupCount[ip] <= 1
          /\ (pollCount[ip] = 1 \/ lookupCount[ip] = 1) => ip \in DOMAIN devices)
  /\ [][ \A ip \in IPs :
           (pollCount'[ip] # pollCount[ip] \/ lookupCount'[ip] # lookupCount[ip])
             => (novel' = novel + 1 /\ ip \notin DOMAIN devices) ]_vars

C17_Witness ==
  /\ observed = {LampIP}
  /\ senders = IPs
  /\ pollCount[LampIP] = 1
  /\ lookupCount[LampIP] = 1
  /\ count + counts >= 1

\* C18: without a caller's budget, maxretry becomes MAXCOUNT if no identity
\* file was loaded and the number of identities plus MAXCOUNT if one was; a
\* caller's budget is kept; a missing identity file is no error.
C18_DefaultBudget ==
  [][ pc = "load" =>
        /\ pc' = "bind"
        /\ maxretry' = IF maxretry # {} THEN maxretry
                       ELSE IF havekeys' THEN {Len(tuyadevices') + MAXCOUNT}
                       ELSE {MAXCOUNT} ]_vars

C18_Witness ==
  /\ pc = "bind"
  /\ havekeys
  /\ Len(tuyadevices) = 1
  /\ maxretry = {MAXCOUNT + 1}

\* Every recorded mac is the identity file's.
NoSweepMac ==
  \A ip \in DOMAIN devices :
    "mac" \in DOMAIN devices[ip] =>
      devices[ip]["mac"] = IdentityMac(created[ip].id)

\* No mac comes from the sweep table, and the scan did not abort.
NoSweepEffect == pc # "aborted" /\ NoSweepMac

\* C19 (as stated): after a sweep that raised, or one in which every host
\* refused, sweeping is off or the table is empty and the loop runs as it
\* would without a sweep.
C19_SweepLeavesLoopUnaffected ==
  /\ pc \in {"load", "bind", "sweep", "bindfail"} => iters = 0
  /\ sweep = "failed" => ~forcescan
  /\ (InScan /\ (sweep = "failed" \/ ip_list = EmptyDict)) => NoSweepMac

\* C19 (amended): the sweep is over before the first receive call and always
\* leads to the loop; a sweep that raises turns forcescan off but keeps the
\* hosts it had recorded; the loop runs as it would without a sweep exactly
\* when the table is empty.
C19_EmptyTableLeavesLoopUnaffected ==
  /\ [](/\ pc \in {"load", "bind", "sweep", "bindfail"} => iters = 0
        /\ sweep = "failed" => ~forcescan
        /\ sweep = "none" => ip_list = EmptyDict
        /\ (InScan /\ ip_list = EmptyDict) => NoSweepEffect)
  /\ [][ /\ pc = "sweep" => pc' = "loop"
         /\ InScan => ip_list' = ip_list ]_vars

C19_Witness ==
  /\ sweep = "failed"
  /\ ip_list = EmptyDict
  /\ pc = "done"
  /\ LampIP \in DOMAIN devices

\* C20: both counters are >= 0, their sum moves by at most 1 per iteration
\* and never exceeds maxRetries + 1; at budget exhaustion (maxRetries >= 0)
\* the sum is maxRetries + 1; a run without datagrams makes maxRetries + 1
\* receive calls and returns an empty registry.
C20_CounterBounds ==
  /\ [](InScan =>
          /\ count >= 0
          /\ counts >= 0
          /\ count + counts <= MaxretryVal + 1
          /\ (pc = "done" /\ MaxretryVal >= 0) =>
               count + counts = MaxretryVal + 1
          /\ (pc = "done" /\ senders = {}) =>
               /\ iters = MaxretryVal + 1
               /\ devices = EmptyDict
               /\ returned)
  /\ [][ /\ count' + counts' <= count + counts + 1
         /\ count' + counts' >= count + counts - 1 ]_vars

C20_Witness ==
  /\ pc = "done"
  /\ senders = {}
  /\ MaxretryVal >= 1
  /\ iters = MaxretryVal + 1

====
